---- MODULE Spec2Model ----
(***************************************************************************)
(* Parental gene assignment of de novo transcripts                         *)
(* (cat/parent_gene_assignment.py: assign_parents, calculate_tx_overlap,   *)
(* resolve_multiple_genes, find_highest_gene_jaccard).                     *)
(*                                                                         *)
(* Transcript names are integers: reference (transMap) transcripts are     *)
(* 1, 2, ... and de novo transcripts are 101, 102, ...  Gene ids (name2)   *)
(* are positive integers; 0 stands for Python's None in a gene column and  *)
(* "None" for None in the ResolutionMethod column.  An exon is a pair      *)
(* <<s, e>> covering the bases s..e; overlap scores are exact rationals    *)
(* <<numerator, denominator>>.                                             *)
(***************************************************************************)
EXTENDS Integers, Sequences, FiniteSets, TLC

\* Number of reference transcripts of the basic input family.
NumRef == 3
\* Number of bases of the modelled locus.
GenomeLen == 2
\* Number of cluster ids the oracle may hand out in the multi-cluster family.
NumClusters == 2
\* Number of de novo transcripts of the multi-cluster family.
NumDenovo == 2
\* Number of bases of the locus of the margin input family.
MarginLen == 5

None == 0
NoMethod == "None"

VARIABLES
    cluster_df,               \* the oracle's table: rows [cluster, gene, exonConflicts]
    filtered_transmap_dict,   \* name -> transcript, filtered transMap
    unfiltered_transmap_dict, \* name -> transcript, unfiltered transMap
    denovo_dict,              \* name -> transcript, de novo predictions
    min_distance,             \* parameter of assign_parents
    pc,                       \* "groupby" | "denovo" | "returned"
    groups,                   \* cluster ids the groupby loop has not yielded yet
    d,                        \* cluster id of the group being processed (0: none)
    part,                     \* the group's transcript sets and gene maps
    denovo_txs,               \* de novo names of the group still to be resolved
    r,                        \* the rows appended so far
    loc                       \* locals of the last resolved de novo transcript

vars == <<cluster_df, filtered_transmap_dict, unfiltered_transmap_dict, denovo_dict,
          min_distance, pc, groups, d, part, denovo_txs, r, loc>>

inputs == <<cluster_df, filtered_transmap_dict, unfiltered_transmap_dict, denovo_dict,
            min_distance>>

----------------------------------------------------------------------------
\* Overlap scores.  A score is the Python float of a quotient of two small
\* integers, kept as <<numerator, denominator>>.  Division rounds correctly, so
\* two such floats compare as the quotients do.

RatGt(a, b) == a[1] * b[2] > b[1] * a[2]

RatGeq(a, b) == a[1] * b[2] >= b[1] * a[2]

RatEq(a, b) == a[1] * b[2] = b[1] * a[2]

\* Python floats are IEEE 754 binary64 values.  A positive one is
\* [e |-> exponent, m |-> significand], the significand a sequence of
\* SignificandBits bits, the first one 1, standing for 1.m[2]m[3]... * 2^e.
SignificandBits == 53

Zero == [e |-> 0, m |-> <<>>]

Zeros(n) == [i \in 1..n |-> 0]

\* numerator, denominator and exponent with denominator <= numerator < 2 * denominator
RECURSIVE Scale(_, _, _)
Scale(p, q, e) ==
    IF p < q THEN Scale(2 * p, q, e - 1)
    ELSE IF p >= 2 * q THEN Scale(p, 2 * q, e + 1)
    ELSE <<p, q, e>>

\* 2^n modulo q, for n up to twice the width of an integer.
Pow2Mod(n, q) == (((2 ^ (n \div 2)) % q) * ((2 ^ (n - (n \div 2))) % q)) % q

\* What is left of rem after n bits of the binary expansion of rem / q, rem < q.
RemainderAfter(rem, q, n) == (rem * Pow2Mod(n, q)) % q

\* The first n bits of that expansion.
QuotientBits(rem, q, n) ==
    [i \in 1..n |-> IF 2 * RemainderAfter(rem, q, i - 1) >= q THEN 1 ELSE 0]

\* The significand plus one unit in the last place: a bit flips when every
\* bit after it is 1.
Increment(m) ==
    [i \in 1..Len(m) |->
        IF \A j \in (i + 1)..Len(m) : m[j] = 1 THEN 1 - m[i] ELSE m[i]]

\* Round to nearest, ties to even: bits is an exact binary expansion whose
\* first bit is 1 and has weight 2^e; sticky tells that more follows it.
RoundBits(e, bits, sticky) ==
    LET kept == [i \in 1..SignificandBits |-> IF i <= Len(bits) THEN bits[i] ELSE 0]
        guard == IF Len(bits) > SignificandBits THEN bits[SignificandBits + 1] ELSE 0
        rest == sticky \/ \E i \in (SignificandBits + 2)..Len(bits) : bits[i] = 1
        up == guard = 1 /\ (rest \/ kept[SignificandBits] = 1)
    IN IF ~up THEN [e |-> e, m |-> kept]
       ELSE IF \A i \in 1..SignificandBits : kept[i] = 1
            THEN [e |-> e + 1, m |-> <<1>> \o Zeros(SignificandBits - 1)]
            ELSE [e |-> e, m |-> Increment(kept)]

\* The float of the quotient x[1] / x[2], and of a literal such as 0.4.
ToDouble(x) ==
    IF x[1] = 0 THEN Zero
    ELSE LET s == Scale(x[1], x[2], 0)
         IN RoundBits(s[3],
                      <<1>> \o QuotientBits(s[1] - s[2], s[2], SignificandBits),
                      RemainderAfter(s[1] - s[2], s[2], SignificandBits) # 0)

\* a - b of two aligned bit sequences, a >= b: a bit borrows when what follows
\* it in a is less than what follows it in b.
SubBits(a, b) ==
    LET borrow(i) == IF \E j \in (i + 1)..Len(a) :
                            /\ a[j] < b[j]
                            /\ \A k \in (i + 1)..(j - 1) : a[k] = b[k]
                     THEN 1 ELSE 0
    IN [i \in 1..Len(a) |-> (a[i] - b[i] - borrow(i) + 2) % 2]

DoubleGeq(a, b) ==
    IF b = Zero THEN TRUE
    ELSE IF a = Zero THEN FALSE
    ELSE \/ a.e > b.e
         \/ /\ a.e = b.e
            /\ ~\E i \in 1..SignificandBits :
                  /\ a.m[i] < b.m[i]
                  /\ \A j \in 1..(i - 1) : a.m[j] = b.m[j]

\* The float a - b for a >= b >= 0: the exact difference, rounded.
DoubleSub(a, b) ==
    IF b = Zero THEN a
    ELSE LET shift == a.e - b.e
             diff == SubBits(a.m \o Zeros(shift), Zeros(shift) \o b.m)
             ones == {i \in 1..Len(diff) : diff[i] = 1}
             first == CHOOSE i \in ones : \A j \in ones : i <= j
         IN IF ones = {} THEN Zero
            ELSE RoundBits(a.e - (first - 1), SubSeq(diff, first, Len(diff)), FALSE)

\* Default of the tm_jaccard_distance parameter.
tm_jaccard_distance == <<1, 4>>

\* Default of the min_distance parameter.
default_min_distance == <<2, 5>>

\* The values given to min_distance.
MinDistances == {default_min_distance, <<3, 4>>, <<3, 5>>}

\* The scores of transcripts of at most GenomeLen or MarginLen bases.
ScoreValues ==
    {x \in (0..(GenomeLen + MarginLen)) \X (1..(GenomeLen + MarginLen)) :
        /\ x[1] <= x[2]
        /\ x[2] <= GenomeLen \/ x[2] <= MarginLen}

\* The float test high_score - x >= min_distance, computed once for every
\* high_score >= x and min_distance that arise: <<high_score, x, min_distance>>
\* with its outcome.
margin_table ==
    {<<t, DoubleGeq(DoubleSub(ToDouble(t[1]), ToDouble(t[2])), ToDouble(t[3]))>> :
        t \in {u \in ScoreValues \X ScoreValues \X MinDistances : RatGeq(u[1], u[2])}}

\* high_score - x >= min_distance
margin_at_least(high_score, x, min_dist) ==
    CHOOSE outcome \in BOOLEAN : <<<<high_score, x, min_dist>>, outcome>> \in margin_table

----------------------------------------------------------------------------
\* tools.intervals and tools.transcripts, tools.nameConversions.

Bases(intervals) == UNION {iv[1]..iv[2] : iv \in intervals}

calculate_bed12_asymmetric_jaccard(bed1, bed2) ==
    IF Bases(bed1) = {} THEN <<0, 1>>
    ELSE <<Cardinality(Bases(bed1) \cap Bases(bed2)), Cardinality(Bases(bed1))>>

calculate_bed12_jaccard(bed1, bed2) ==
    IF Bases(bed1) \cup Bases(bed2) = {} THEN <<0, 1>>
    ELSE <<Cardinality(Bases(bed1) \cap Bases(bed2)),
           Cardinality(Bases(bed1) \cup Bases(bed2))>>

\* Overlapping and abutting intervals coalesce into maximal runs of bases.
gap_merge_intervals(intervals, gap) ==
    LET B == Bases(intervals)
    IN {<<s, e>> \in B \X B :
            /\ s <= e
            /\ \A b \in s..e : b \in B
            /\ (s - 1) \notin B
            /\ (e + 1) \notin B}

aln_id_is_denovo(name) == name > 100

group_transcripts_by_name2(txs, tx_dict) ==
    [g \in {tx_dict[n].name2 : n \in txs} |-> {n \in txs : tx_dict[n].name2 = g}]

----------------------------------------------------------------------------
\* The per-cluster partition (the body of the groupby loop up to the de novo loop).

\* NaN in the exonConflicts column.
NaN == <<>>

\* cluster_df['is_denovo'] = cluster_df.apply(assign_type, axis=1)
is_denovo(row) == aln_id_is_denovo(row.gene)

cluster_denovo_txs(c) ==
    {row.gene : row \in {x \in cluster_df : x.cluster = c /\ is_denovo(x)}}

\* The sets and maps built for group c before its de novo loop.  Both map loops
\* (over the filtered, then over the unfiltered-only transcripts) write the same
\* two maps.
Partition(c) ==
    LET refs == {row.gene : row \in {x \in cluster_df : x.cluster = c /\ ~is_denovo(x)}}
        filtered == {n \in refs : n \in DOMAIN filtered_transmap_dict}
        unfiltered == {n \in refs : n \notin DOMAIN filtered_transmap_dict}
        tx_to_gene == [n \in refs |->
                          IF n \in filtered THEN filtered_transmap_dict[n].name2
                          ELSE unfiltered_transmap_dict[n].name2]
    IN [filtered_overlapping_tm_txs |-> filtered,
        unfiltered_overlapping_tm_txs |-> unfiltered,
        filtered_gene_ids |-> {filtered_transmap_dict[n].name2 : n \in filtered},
        tx_to_gene_ids |-> tx_to_gene,
        gene_to_tx_ids |-> [g \in {tx_to_gene[n] : n \in refs} |->
                               {n \in refs : tx_to_gene[n] = g}]]

NoPartition ==
    [filtered_overlapping_tm_txs |-> {}, unfiltered_overlapping_tm_txs |-> {},
     filtered_gene_ids |-> {}, tx_to_gene_ids |-> <<>>, gene_to_tx_ids |-> <<>>]

----------------------------------------------------------------------------
\* calculate_tx_overlap: the best asymmetric overlap of tx against tx_list.

RECURSIVE tx_overlap_loop(_, _, _, _)
tx_overlap_loop(tx, tx_list, tx_dict, best_overlap) ==
    IF tx_list = {} THEN best_overlap
    ELSE LET name == CHOOSE n \in tx_list : TRUE
             overlap == calculate_bed12_asymmetric_jaccard(tx.exon_intervals,
                                                           tx_dict[name].exon_intervals)
         IN tx_overlap_loop(tx, tx_list \ {name}, tx_dict,
                            IF RatGt(overlap, best_overlap) THEN overlap
                            ELSE best_overlap)

calculate_tx_overlap(tx, tx_list, tx_dict) ==
    tx_overlap_loop(tx, tx_list, tx_dict, <<0, 1>>)

\* "calculate_tx_overlap(denovo_tx, gene_to_tx_ids[gene], unfiltered_transmap_dict)
\* > min_distance", the test of every single-gene assignment and of every
\* alternative gene.
OverlapsEnough(tx, gene) ==
    RatGt(calculate_tx_overlap(denovo_dict[tx], part.gene_to_tx_ids[gene],
                               unfiltered_transmap_dict),
          min_distance)

----------------------------------------------------------------------------
\* find_highest_gene_jaccard and resolve_multiple_genes.

find_interval(gene_list) ==
    gap_merge_intervals(UNION {filtered_transmap_dict[n].exon_intervals : n \in gene_list}, 0)

find_highest_gene_jaccard(gene_list_a, gene_list_b) ==
    calculate_bed12_jaccard(find_interval(gene_list_a), find_interval(gene_list_b))

\* The iteration orders of a Python set: every sequence listing it once.
RECURSIVE Orders(_)
Orders(S) ==
    IF S = {} THEN {<<>>}
    ELSE UNION {{<<x>> \o s : s \in Orders(S \ {x})} : x \in S}

\* all(x > tm_jaccard_distance for x in tm_jaccards), tm_jaccards over the
\* combinations of two genes; true of an empty list of pairs.
AllTmJaccardsExceed(overlapping_tm_txs, tm_jaccard) ==
    LET tm_txs_by_gene == group_transcripts_by_name2(overlapping_tm_txs,
                                                     filtered_transmap_dict)
    IN \A x \in DOMAIN tm_txs_by_gene : \A y \in DOMAIN tm_txs_by_gene :
          x < y => RatGt(find_highest_gene_jaccard(tm_txs_by_gene[x], tm_txs_by_gene[y]),
                         tm_jaccard)

\* Keys of the scores dict, in insertion order: genes by first appearance.
RECURSIVE score_keys(_, _)
score_keys(order, seen) ==
    IF order = <<>> THEN seen
    ELSE LET g == filtered_transmap_dict[Head(order)].name2
         IN score_keys(Tail(order),
                       IF \E i \in 1..Len(seen) : seen[i] = g THEN seen
                       ELSE Append(seen, g))

\* best_scores = {gene_id: max(scores[gene_id]) for gene_id in scores}
best_scores_of(denovo_tx, overlapping_tm_txs) ==
    [gene_id \in {filtered_transmap_dict[n].name2 : n \in overlapping_tm_txs} |->
        LET S == {calculate_bed12_asymmetric_jaccard(
                      denovo_tx.exon_intervals, filtered_transmap_dict[n].exon_intervals) :
                    n \in {m \in overlapping_tm_txs :
                              filtered_transmap_dict[m].name2 = gene_id}}
        IN CHOOSE s \in S : \A t \in S : RatGeq(s, t)]

\* max(best_scores.values())
high_score_of(best_scores) ==
    LET S == {best_scores[g] : g \in DOMAIN best_scores}
    IN CHOOSE s \in S : \A t \in S : RatGeq(s, t)

\* high_gene_of returning the last key with the maximum instead of the first.
high_gene_of_Last(best_scores, keys) ==
    LET i == CHOOSE j \in 1..Len(keys) :
                /\ \A k \in 1..Len(keys) : RatGeq(best_scores[keys[j]], best_scores[keys[k]])
                /\ \A k \in (j + 1)..Len(keys) : RatGt(best_scores[keys[j]], best_scores[keys[k]])
    IN keys[i]

\* max(best_scores, key=...): the first key, in iteration order, with the maximum.
high_gene_of(best_scores, keys) ==
    LET i == CHOOSE j \in 1..Len(keys) :
                /\ \A k \in 1..Len(keys) : RatGeq(best_scores[keys[j]], best_scores[keys[k]])
                /\ \A k \in 1..(j - 1) : RatGt(best_scores[keys[j]], best_scores[keys[k]])
    IN keys[i]

\* sorted(items, key=score): a stable ascending insertion sort of the keys.
RECURSIVE sorted_by_score(_, _, _)
sorted_by_score(best_scores, keys, acc) ==
    IF keys = <<>> THEN acc
    ELSE LET g == Head(keys)
             \* g goes after every element that does not score more than it
             pos == Cardinality({i \in 1..Len(acc) :
                                    RatGeq(best_scores[g], best_scores[acc[i]])})
         IN sorted_by_score(best_scores, Tail(keys),
                            SubSeq(acc, 1, pos) \o <<g>> \o SubSeq(acc, pos + 1, Len(acc)))

\* best_of taking the first element of the sort instead of the last.
best_of_First(best_scores, keys) ==
    LET s == sorted_by_score(best_scores, keys, <<>>)
    IN s[1]

\* sorted(...)[-1][0]
best_of(best_scores, keys) ==
    LET s == sorted_by_score(best_scores, keys, <<>>)
    IN s[Len(s)]

\* all((high_score - x >= min_distance) for x in best_scores.values() if x != high_score)
MarginSufficient(best_scores, min_dist) ==
    LET high_score == high_score_of(best_scores)
    IN \A g \in DOMAIN best_scores :
          ~RatEq(best_scores[g], high_score)
              => margin_at_least(high_score, best_scores[g], min_dist)

\* ResolveByScore returning the sort's best gene with a tie.
ResolveByScore_TieKeepsGene(best_scores, keys, min_dist) ==
    IF MarginSufficient(best_scores, min_dist)
    THEN IF best_of(best_scores, keys) # high_gene_of(best_scores, keys)
         THEN <<best_of(best_scores, keys), "ambiguousOrFusion">>
         ELSE <<best_of(best_scores, keys), "rescued">>
    ELSE <<None, "ambiguousOrFusion">>

\* The part of resolve_multiple_genes after the badAnnotOrTm test.
ResolveByScore(best_scores, keys, min_dist) ==
    IF MarginSufficient(best_scores, min_dist)
    THEN IF best_of(best_scores, keys) # high_gene_of(best_scores, keys)
         THEN <<None, "ambiguousOrFusion">>
         ELSE <<best_of(best_scores, keys), "rescued">>
    ELSE <<None, "ambiguousOrFusion">>

\* order: the order in which the set overlapping_tm_txs is iterated.
resolve_multiple_genes(denovo_tx, order, min_dist, tm_jaccard) ==
    LET overlapping_tm_txs == {order[i] : i \in 1..Len(order)}
    IN IF AllTmJaccardsExceed(overlapping_tm_txs, tm_jaccard)
       THEN <<None, "badAnnotOrTm">>
       ELSE ResolveByScore(best_scores_of(denovo_tx, overlapping_tm_txs),
                           score_keys(order, <<>>), min_dist)

----------------------------------------------------------------------------
\* The exon-conflict narrowing of one de novo transcript.

\* cluster_df.loc[cluster_df['gene'] == denovo_tx.name, ['exonConflicts']].dropna()
exon_conflict_df(tx) ==
    {row.exonConflicts : row \in {x \in cluster_df : x.gene = tx /\ x.exonConflicts # NaN}}

\* to_numpy()[0][0].split(',')[:-1]: the column's fields without the last one
\* (the column ends with a comma, so the last field is the empty string).
exon_conflicts_of(tx) ==
    LET fields == CHOOSE f \in exon_conflict_df(tx) : TRUE
    IN SubSeq(fields, 1, Len(fields) - 1)

\* conflict.split(':')[1]: the transcript id of a "source:transcriptId" entry.
tx_conflict_of(conflict) == conflict[2]

\* "len(nonoverlapping_genes[gene]) == len(gene_to_tx_ids[gene])": as many
\* conflict entries of the gene as transcripts of the gene in the cluster.
FullyConflicting(n_conflicts, n_txs) == n_conflicts = n_txs

\* The sets built from the conflict list of tx.
Narrow(tx) ==
    LET exon_conflicts == exon_conflicts_of(tx)
        \* entries naming a reference transcript of the cluster
        hits == {i \in 1..Len(exon_conflicts) :
                    tx_conflict_of(exon_conflicts[i]) \in DOMAIN part.tx_to_gene_ids}
        \* nonoverlapping_genes: gene -> its conflict entries
        nonoverlapping_genes ==
            [g \in {part.tx_to_gene_ids[tx_conflict_of(exon_conflicts[i])] : i \in hits} |->
                {i \in hits : part.tx_to_gene_ids[tx_conflict_of(exon_conflicts[i])] = g}]
        nonoverlapping_tx_ids == {tx_conflict_of(exon_conflicts[i]) : i \in hits}
        refiltered_nonoverlapping_tm_txs ==
            {n \in nonoverlapping_tx_ids : n \in DOMAIN filtered_transmap_dict}
        nonoverlapping_gene_ids ==
            {gene \in DOMAIN part.gene_to_tx_ids :
                /\ gene \in DOMAIN nonoverlapping_genes
                /\ FullyConflicting(Cardinality(nonoverlapping_genes[gene]),
                                    Cardinality(part.gene_to_tx_ids[gene]))}
    IN [nonoverlapping_tx_ids |-> nonoverlapping_tx_ids,
        nonoverlapping_gene_ids |-> nonoverlapping_gene_ids,
        overlapping_gene_ids |-> part.filtered_gene_ids \ nonoverlapping_gene_ids,
        refiltered_overlapping_tm_txs |->
            part.filtered_overlapping_tm_txs \ refiltered_nonoverlapping_tm_txs]

NoNarrow ==
    [nonoverlapping_tx_ids |-> {}, nonoverlapping_gene_ids |-> {},
     overlapping_gene_ids |-> {}, refiltered_overlapping_tm_txs |-> {}]

----------------------------------------------------------------------------
\* The primary decision of the two branches.  A plan says whether
\* resolve_multiple_genes is called and with which transcripts, or else which
\* single gene (None: no candidate) goes through the overlap test.

CallPlan(txs) == [call |-> TRUE, txs |-> txs, gene |-> None]

SinglePlan(gene) == [call |-> FALSE, txs |-> {}, gene |-> gene]

TheOne(S) == CHOOSE x \in S : TRUE

\* if not exon_conflict_df.empty: the if/elif chain on the candidate sets
ConflictPlan(narrow) ==
    IF Cardinality(narrow.overlapping_gene_ids) = 0 THEN SinglePlan(None)
    ELSE IF Cardinality(part.filtered_gene_ids) = 1
         THEN SinglePlan(TheOne(part.filtered_gene_ids))
    ELSE IF Cardinality(narrow.nonoverlapping_gene_ids) > 0
         THEN IF Cardinality(narrow.overlapping_gene_ids) > 1
              THEN CallPlan(narrow.refiltered_overlapping_tm_txs)
              ELSE SinglePlan(TheOne(narrow.overlapping_gene_ids))
    ELSE IF Cardinality(narrow.overlapping_gene_ids) > 1
         THEN CallPlan(part.filtered_overlapping_tm_txs)
    ELSE SinglePlan(None)

\* else: (no exon conflicts) resolve like normal
NormalPlan ==
    IF Cardinality(part.filtered_gene_ids) > 1
    THEN CallPlan(part.filtered_overlapping_tm_txs)
    ELSE IF Cardinality(part.filtered_gene_ids) = 1
         THEN SinglePlan(TheOne(part.filtered_gene_ids))
    ELSE SinglePlan(None)

\* Decide without the single gene's overlap test.
Decide_NoOverlapTest(tx, plan, order) ==
    IF plan.call
    THEN resolve_multiple_genes(denovo_dict[tx], order, min_distance, tm_jaccard_distance)
    ELSE <<plan.gene, NoMethod>>

\* <<resolved_name, resolution_method>> of a plan; order is the iteration order
\* of the transcript set handed to resolve_multiple_genes.
Decide(tx, plan, order) ==
    IF plan.call
    THEN resolve_multiple_genes(denovo_dict[tx], order, min_distance, tm_jaccard_distance)
    ELSE IF plan.gene # None /\ OverlapsEnough(tx, plan.gene)
         THEN <<plan.gene, NoMethod>>
         ELSE <<None, NoMethod>>

----------------------------------------------------------------------------
\* The alternative genes and the emitted row.

\* Gene ids of the pool the alternatives are taken from: the conflict-narrowed
\* filtered transcripts, or the unfiltered-only transcripts of the cluster.
ConflictPool(narrow) ==
    {filtered_transmap_dict[n].name2 : n \in narrow.refiltered_overlapping_tm_txs}

NormalPool ==
    {unfiltered_transmap_dict[n].name2 : n \in part.unfiltered_overlapping_tm_txs}

\* filtered_alternative_gene_ids without the removal of the resolved gene.
filtered_alternative_gene_ids_Keep(tx, pool, resolved_name) ==
    {g \in pool : OverlapsEnough(tx, g)}

filtered_alternative_gene_ids(tx, pool, resolved_name) ==
    {g \in pool \ {resolved_name} : OverlapsEnough(tx, g)}

\* ','.join(sorted(...)) if len(...) > 0 else None: the ids in ascending order;
\* the empty sequence stands for None.
RECURSIVE sorted(_)
sorted(S) ==
    IF S = {} THEN <<>>
    ELSE LET m == CHOOSE x \in S : \A y \in S : x <= y
         IN <<m>> \o sorted(S \ {m})

\* FinalMethod without the reset.
FinalMethod_Keep(alternatives, resolution_method) == resolution_method

\* if len(filtered_alternative_gene_ids) == 0: resolution_method = None
FinalMethod(alternatives, resolution_method) ==
    IF Cardinality(alternatives) = 0 THEN NoMethod ELSE resolution_method

Row(tx, pool, decision) ==
    LET alternatives == filtered_alternative_gene_ids(tx, pool, decision[1])
    IN [TranscriptId |-> tx,
        AssignedGeneId |-> decision[1],
        AlternativeGeneIds |-> sorted(alternatives),
        ResolutionMethod |-> FinalMethod(alternatives, decision[2])]

----------------------------------------------------------------------------
\* Actions.

NoLocals ==
    [tx |-> 0, branch |-> "none", narrow |-> NoNarrow, plan |-> SinglePlan(None),
     decision |-> <<None, NoMethod>>]

\* for _, d in cluster_df.groupby('#cluster'): groups come in ascending order.
NextGroup == CHOOSE c \in groups : \A x \in groups : c <= x

\* The loop binds d to the group, then: if not any(d.is_denovo): continue
SkipCluster ==
    /\ pc = "groupby"
    /\ groups # {}
    /\ cluster_denovo_txs(NextGroup) = {}
    /\ d' = NextGroup
    /\ groups' = groups \ {NextGroup}
    /\ UNCHANGED <<inputs, pc, part, denovo_txs, r, loc>>

\* PartitionCluster with denovo_txs created once before the groupby loop, so
\* that it still holds the transcripts of the groups before.
PartitionCluster_Accumulate ==
    /\ pc = "groupby"
    /\ groups # {}
    /\ cluster_denovo_txs(NextGroup) # {}
    /\ d' = NextGroup
    /\ groups' = groups \ {NextGroup}
    /\ part' = Partition(NextGroup)
    /\ denovo_txs' = cluster_denovo_txs(NextGroup) \cup {r[i].TranscriptId : i \in 1..Len(r)}
    /\ pc' = "denovo"
    /\ UNCHANGED <<inputs, r, loc>>

\* The group has a de novo member: build its sets and maps, enter the de novo loop.
PartitionCluster ==
    /\ pc = "groupby"
    /\ groups # {}
    /\ cluster_denovo_txs(NextGroup) # {}
    /\ d' = NextGroup
    /\ groups' = groups \ {NextGroup}
    /\ part' = Partition(NextGroup)
    /\ denovo_txs' = cluster_denovo_txs(NextGroup)
    /\ pc' = "denovo"
    /\ UNCHANGED <<inputs, r, loc>>

\* One iteration of "for denovo_tx in denovo_txs" (a set: any order).
Resolve(tx, branch, narrow, plan, pool) ==
    /\ \E decision \in {Decide(tx, plan, order) : order \in Orders(plan.txs)} :
          /\ r' = Append(r, Row(tx, pool, decision))
          /\ loc' = [tx |-> tx, branch |-> branch, narrow |-> narrow, plan |-> plan,
                     decision |-> decision]
    /\ denovo_txs' = denovo_txs \ {tx}
    /\ pc' = IF denovo_txs \ {tx} = {} THEN "groupby" ELSE "denovo"
    /\ UNCHANGED <<inputs, groups, d, part>>

ResolveExonConflicts ==
    /\ pc = "denovo"
    /\ \E tx \in denovo_txs :
          /\ exon_conflict_df(tx) # {}
          /\ LET narrow == Narrow(tx)
             IN Resolve(tx, "exonConflicts", narrow, ConflictPlan(narrow),
                        ConflictPool(narrow))

ResolveNormal ==
    /\ pc = "denovo"
    /\ \E tx \in denovo_txs :
          /\ exon_conflict_df(tx) = {}
          /\ Resolve(tx, "normal", NoNarrow, NormalPlan, NormalPool)

\* combined_alternatives = pd.DataFrame(r, ...).set_index('TranscriptId'); return
Return ==
    /\ pc = "groupby"
    /\ groups = {}
    /\ pc' = "returned"
    /\ UNCHANGED <<inputs, groups, d, part, denovo_txs, r, loc>>

Next == SkipCluster \/ PartitionCluster \/ ResolveExonConflicts \/ ResolveNormal \/ Return

----------------------------------------------------------------------------
\* Inputs.  A reference transcript is drawn as a shape
\* <<name2, filtered (1) or unfiltered only (0), exon, cluster>>; transcript
\* names are handed out in ascending order of shape and gene ids in order of
\* first use, which loses no input up to renaming.  The filtered collection is
\* a subset of the unfiltered one, with the same transcript bodies.

\* Exons of the locus: its first base, its last base, or all of it.
Exons == {<<1, 1>>, <<GenomeLen, GenomeLen>>, <<1, GenomeLen>>}

Full == {<<1, GenomeLen>>}

MarginExons == {<<1, MarginLen - 2>>, <<MarginLen, MarginLen>>, <<1, MarginLen>>}

RECURSIVE LexLeq(_, _)
LexLeq(a, b) ==
    IF a = <<>> THEN TRUE
    ELSE IF Head(a) # Head(b) THEN Head(a) < Head(b)
    ELSE LexLeq(Tail(a), Tail(b))

ShapeKey(shape) == <<shape[1], shape[2], shape[3][1], shape[3][2], shape[4]>>

\* The first k reference transcripts of n.
RECURSIVE RefPrefixes(_, _, _, _)
RefPrefixes(k, n, bodies, clusters) ==
    IF k = 0 THEN {<<>>}
    ELSE {Append(p[1], p[2]) :
            p \in {q \in RefPrefixes(k - 1, n, bodies, clusters)
                            \X ((1..n) \X {0, 1} \X bodies \X clusters) :
                      IF k = 1 THEN q[2][1] = 1
                      ELSE /\ q[2][1] <= q[1][k - 1][1] + 1
                           /\ LexLeq(ShapeKey(q[1][k - 1]), ShapeKey(q[2]))}}

RefShapes(n, bodies, clusters) == RefPrefixes(n, n, bodies, clusters)

\* The first de novo transcript takes any exon, the others span the locus.
DenovoShapes(n, bodies, clusters) ==
    {f \in [1..n -> bodies \X clusters] : \A k \in 2..n : f[k][1] \in Full}

Transcript(name, name2, exon) ==
    [name |-> name, name2 |-> name2, exon_intervals |-> {exon}]

\* The exonConflicts column of a row: one "source:transcriptId" field per
\* conflicting transcript, each followed by a comma, or NaN when there is none.
\* With repeat the first transcript is listed a second time.
ConflictColumn(S, repeat) ==
    LET ids == IF repeat THEN Append(sorted(S), sorted(S)[1]) ELSE sorted(S)
    IN IF S = {} THEN NaN
       ELSE [i \in 1..(Len(ids) + 1) |->
               IF i <= Len(ids)
               THEN <<IF aln_id_is_denovo(ids[i]) THEN "denovo" ELSE "transMap", ids[i]>>
               ELSE <<>>]

\* Only the first de novo transcript (101) is given exon conflicts; they name
\* members of its own cluster: other de novo transcripts and, with
\* refConflicts, reference transcripts; with repeats and the default
\* min_distance, possibly one of them twice.
InitFamily(nRef, bodies, clusters, nDenovo, refConflicts, repeats, minDistances) ==
    \E refs \in RefShapes(nRef, bodies, clusters) :
    \E dens \in DenovoShapes(nDenovo, bodies, clusters) :
    \E conf \in SUBSET ({i \in 1..nRef : refConflicts /\ refs[i][4] = dens[1][2]}
                        \cup {100 + k : k \in {j \in 2..nDenovo : dens[j][2] = dens[1][2]}}) :
    \E md \in minDistances :
    \E repeat \in {b \in {FALSE, TRUE} :
                       b => (repeats /\ conf # {} /\ md = default_min_distance)} :
        /\ unfiltered_transmap_dict =
              [i \in 1..nRef |-> Transcript(i, refs[i][1], refs[i][3])]
        /\ filtered_transmap_dict =
              [i \in {j \in 1..nRef : refs[j][2] = 1} |->
                  Transcript(i, refs[i][1], refs[i][3])]
        /\ denovo_dict =
              [n \in {100 + k : k \in 1..nDenovo} |-> Transcript(n, n, dens[n - 100][1])]
        /\ cluster_df =
              {[cluster |-> refs[i][4], gene |-> i, exonConflicts |-> NaN] : i \in 1..nRef}
              \cup {[cluster |-> dens[k][2], gene |-> 100 + k,
                     exonConflicts |-> IF k = 1 THEN ConflictColumn(conf, repeat) ELSE NaN] :
                        k \in 1..nDenovo}
        /\ min_distance = md
        /\ pc = "groupby"
        /\ groups = {refs[i][4] : i \in 1..nRef} \cup {dens[k][2] : k \in 1..nDenovo}
        /\ d = 0
        /\ part = NoPartition
        /\ denovo_txs = {}
        /\ r = <<>>
        /\ loc = NoLocals

\* One cluster, one de novo transcript without exon conflicts.
InitBasic ==
    InitFamily(NumRef, Exons, {1}, 1, FALSE, FALSE, {default_min_distance, <<3, 4>>})

\* One cluster, one de novo transcript with exon conflicts, one reference
\* transcript less; the conflict list may name a transcript twice.
InitConflicts ==
    InitFamily(NumRef - 1, Exons, {1}, 1, TRUE, TRUE, {default_min_distance, <<3, 4>>})

\* One cluster, one reference transcript more, every transcript spanning the locus.
InitWide == InitFamily(NumRef + 1, Full, {1}, 1, TRUE, TRUE, {default_min_distance})

\* Several clusters and de novo transcripts, two reference transcripts less,
\* every transcript spanning the locus.
InitClusters ==
    InitFamily(NumRef - 2, Full, 1..NumClusters, NumDenovo, FALSE, FALSE,
               {default_min_distance})

\* One cluster of a longer locus, whose reference transcripts cover all of it,
\* its last base, or all but its last two bases; min_distance may equal a score.
InitMargin ==
    InitFamily(NumRef - 1, MarginExons, {1}, 1, FALSE, FALSE,
               {default_min_distance, <<3, 5>>})

Init == InitBasic \/ InitConflicts \/ InitWide \/ InitClusters \/ InitMargin

Spec == Init /\ [][Next]_vars

----------------------------------------------------------------------------
\* Properties.  After a de novo transcript has been resolved, loc holds its
\* locals, part the maps of its cluster and the last row of r its record, until
\* the loop takes the next group.

Emitted == loc.tx # 0 /\ loc.tx \in cluster_denovo_txs(d)

LastRow == r[Len(r)]

\* The candidate genes of the resolved transcript: the filtered genes of its
\* cluster, narrowed when it has exon conflicts.
Candidates ==
    IF loc.branch = "exonConflicts" THEN loc.narrow.overlapping_gene_ids
    ELSE part.filtered_gene_ids

\* Best asymmetric overlap of the resolved transcript against a gene's transcripts.
BestOverlap(gene) ==
    calculate_tx_overlap(denovo_dict[loc.tx], part.gene_to_tx_ids[gene],
                         unfiltered_transmap_dict)

AlternativeSet == {LastRow.AlternativeGeneIds[i] : i \in 1..Len(LastRow.AlternativeGeneIds)}

\* Genes and scores of the transcripts handed to resolve_multiple_genes.
PassedGenes == {filtered_transmap_dict[n].name2 : n \in loc.plan.txs}

PassedScores == best_scores_of(denovo_dict[loc.tx], loc.plan.txs)

TopGenes ==
    {g \in PassedGenes : \A h \in PassedGenes : RatGeq(PassedScores[g], PassedScores[h])}

\* One gene has the maximum score and the float high_score - x is at least
\* min_distance for the score x of every other gene.
ClearWinner ==
    /\ Cardinality(TopGenes) = 1
    /\ \A h \in PassedGenes \ TopGenes :
          margin_at_least(PassedScores[TheOne(TopGenes)], PassedScores[h], min_distance)

\* C1: a transcript with exactly one candidate gene G is assigned G exactly when
\* its best overlap with G is greater than min_distance, and is unassigned
\* otherwise; its method is null either way, in both branches.
C1_SingleCandidate ==
    (Emitted /\ Cardinality(Candidates) = 1) =>
        /\ LastRow.ResolutionMethod = NoMethod
        /\ LastRow.AssignedGeneId =
              IF RatGt(BestOverlap(TheOne(Candidates)), min_distance)
              THEN TheOne(Candidates) ELSE None

C1_Witness ==
    /\ Emitted
    /\ loc.branch = "exonConflicts"
    /\ Cardinality(part.filtered_gene_ids) = 2
    /\ Cardinality(Candidates) = 1
    /\ LastRow.AssignedGeneId = TheOne(Candidates)

\* The test of resolve_multiple_genes on the transcripts handed to it: every
\* pair of their genes has footprints, merged over those transcripts, whose
\* Jaccard overlap exceeds tm_jaccard_distance; true when there is no pair.
CandidatesAllOverlap ==
    \A g \in PassedGenes : \A h \in PassedGenes :
        g < h => RatGt(find_highest_gene_jaccard(
                           {n \in loc.plan.txs : filtered_transmap_dict[n].name2 = g},
                           {n \in loc.plan.txs : filtered_transmap_dict[n].name2 = h}),
                       tm_jaccard_distance)

\* C2: with two or more candidate genes that all overlap one another by more
\* than tm_jaccard_distance, the record is (null, badAnnotOrTm).
C2_BadAnnotRecorded ==
    (Emitted /\ Cardinality(Candidates) >= 2 /\ CandidatesAllOverlap) =>
        /\ LastRow.AssignedGeneId = None
        /\ LastRow.ResolutionMethod = "badAnnotOrTm"

\* C3 as stated: a clear winner H among two or more scored genes is always
\* returned as (H, rescued).
C3_Original ==
    (Emitted /\ loc.plan.call /\ Cardinality(PassedGenes) >= 2 /\ ClearWinner) =>
        loc.decision = <<TheOne(TopGenes), "rescued">>

\* C3 amended: when not every pair of the scored genes overlaps by more than
\* tm_jaccard_distance, a gene H that alone has the maximum score is returned
\* as (H, rescued) if the float high_score - x is at least min_distance for
\* every other score x, and (None, ambiguousOrFusion) is returned if it is
\* not; the record of a rescued H assigns H, with method rescued if an
\* alternative gene is retained and null if none is.
C3_Rescued ==
    (/\ Emitted
     /\ loc.plan.call
     /\ Cardinality(PassedGenes) >= 2
     /\ ~AllTmJaccardsExceed(loc.plan.txs, tm_jaccard_distance)
     /\ Cardinality(TopGenes) = 1) =>
        IF ClearWinner
        THEN /\ loc.decision = <<TheOne(TopGenes), "rescued">>
             /\ LastRow.AssignedGeneId = TheOne(TopGenes)
             /\ LastRow.ResolutionMethod =
                   IF LastRow.AlternativeGeneIds = <<>> THEN NoMethod ELSE "rescued"
        ELSE /\ loc.decision = <<None, "ambiguousOrFusion">>
             /\ LastRow.AssignedGeneId = None

C3_Witness ==
    /\ Emitted
    /\ loc.plan.call
    /\ ClearWinner
    /\ loc.decision = <<TheOne(TopGenes), "rescued">>
    /\ LastRow.ResolutionMethod = "rescued"

\* C4: once the badAnnotOrTm test has not fired, two or more genes with the
\* maximum score give (None, ambiguousOrFusion), whatever min_distance, the
\* lower scores and the iteration order of the transcripts.
C4_TieIsAmbiguous ==
    (/\ Emitted
     /\ loc.plan.call
     /\ ~AllTmJaccardsExceed(loc.plan.txs, tm_jaccard_distance)
     /\ Cardinality(TopGenes) >= 2) =>
        /\ loc.decision = <<None, "ambiguousOrFusion">>
        /\ \A order \in Orders(loc.plan.txs) :
              Decide(loc.tx, loc.plan, order) = <<None, "ambiguousOrFusion">>

C4_Witness ==
    /\ Emitted
    /\ loc.plan.call
    /\ ~AllTmJaccardsExceed(loc.plan.txs, tm_jaccard_distance)
    /\ Cardinality(TopGenes) >= 2
    /\ MarginSufficient(PassedScores, min_distance)
    /\ loc.decision = <<None, "ambiguousOrFusion">>

\* C5: the alternatives of a record never hold its assigned gene nor a gene
\* whose best overlap with the transcript is at most min_distance.
C5_Alternatives ==
    Emitted =>
        \A g \in AlternativeSet :
            /\ g # LastRow.AssignedGeneId
            /\ RatGt(BestOverlap(g), min_distance)

C5_Witness ==
    /\ Emitted
    /\ LastRow.AssignedGeneId # None
    /\ AlternativeSet # {}
    /\ LastRow.AssignedGeneId \in NormalPool

\* The pool of alternatives of the resolved transcript's branch.
PoolOfBranch == IF loc.branch = "exonConflicts" THEN ConflictPool(loc.narrow) ELSE NormalPool

DenovoInTable == {row.gene : row \in {x \in cluster_df : is_denovo(x)}}

\* C6: no two records share a TranscriptId, every record is of a de novo
\* transcript of the table, and at the return there is exactly one per de novo
\* transcript; each record is computed from the maps of the transcript's own
\* cluster alone, so that it does not depend on what was processed before.
C6_OneRecordPerDenovo ==
    /\ \A i \in 1..Len(r) : \A j \in 1..Len(r) :
          i # j => r[i].TranscriptId # r[j].TranscriptId
    /\ \A i \in 1..Len(r) : r[i].TranscriptId \in DenovoInTable
    /\ pc = "returned" =>
          /\ {r[i].TranscriptId : i \in 1..Len(r)} = DenovoInTable
          /\ Len(r) = Cardinality(DenovoInTable)
    /\ Emitted =>
          /\ part = Partition(d)
          /\ \E order \in Orders(loc.plan.txs) :
                LastRow = Row(loc.tx, PoolOfBranch, Decide(loc.tx, loc.plan, order))

C6_Witness ==
    /\ pc = "returned"
    /\ Len(r) = 2
    /\ \E row \in cluster_df : cluster_denovo_txs(row.cluster) = {}

\* Transcript ids named by the conflict list of the resolved transcript.
ConflictListed ==
    {tx_conflict_of(exon_conflicts_of(loc.tx)[i]) : i \in 1..Len(exon_conflicts_of(loc.tx))}

\* C7: a filtered gene is removed from the candidates exactly when all its
\* filtered transcripts of the cluster are in the conflict list; no transcript
\* of a removed gene is scored; and one remaining candidate with overlap above
\* min_distance is assigned, method null.
C7_Narrowing ==
    (Emitted /\ loc.branch = "exonConflicts") =>
        /\ \A g \in part.filtered_gene_ids :
              (g \notin Candidates) <=>
                  (part.gene_to_tx_ids[g] \cap part.filtered_overlapping_tm_txs
                      \subseteq ConflictListed)
        /\ \A n \in loc.plan.txs : filtered_transmap_dict[n].name2 \in Candidates
        /\ (/\ Cardinality(Candidates) = 1
            /\ RatGt(BestOverlap(TheOne(Candidates)), min_distance)) =>
              /\ LastRow.AssignedGeneId = TheOne(Candidates)
              /\ LastRow.ResolutionMethod = NoMethod

\* C8: with no alternative retained, a method of rescued or ambiguousOrFusion is
\* replaced by null; no record has one of them with null alternatives.
C8_Downgrade ==
    /\ \A i \in 1..Len(r) :
          r[i].AlternativeGeneIds = <<>> =>
              r[i].ResolutionMethod \notin {"rescued", "ambiguousOrFusion"}
    /\ (/\ Emitted
        /\ loc.decision[2] \in {"rescued", "ambiguousOrFusion"}
        /\ LastRow.AlternativeGeneIds = <<>>) =>
          LastRow.ResolutionMethod = NoMethod

C8_Witness ==
    /\ Emitted
    /\ loc.decision[2] = "rescued"
    /\ LastRow.AlternativeGeneIds = <<>>
    /\ LastRow.ResolutionMethod = NoMethod

\* C9: every record is (gene, null), (gene, rescued), (null, badAnnotOrTm),
\* (null, ambiguousOrFusion) or (null, null), and a method other than null is
\* recorded only after resolve_multiple_genes was called.
C9_Outcomes ==
    /\ \A i \in 1..Len(r) :
          \/ r[i].AssignedGeneId # None /\ r[i].ResolutionMethod \in {NoMethod, "rescued"}
          \/ /\ r[i].AssignedGeneId = None
             /\ r[i].ResolutionMethod \in {NoMethod, "badAnnotOrTm", "ambiguousOrFusion"}
    /\ (Emitted /\ LastRow.ResolutionMethod # NoMethod) => loc.plan.call

C9_Witness ==
    /\ Emitted
    /\ loc.plan.call
    /\ LastRow.AssignedGeneId = None
    /\ LastRow.ResolutionMethod = "ambiguousOrFusion"

\* C10: every call of resolve_multiple_genes is handed transcripts of at least
\* two genes, so badAnnotOrTm is never returned for fewer than two scored genes.
C10_TwoGenesPassed ==
    (Emitted /\ loc.plan.call) => Cardinality(PassedGenes) >= 2

====
